---------------------------- MODULE Spec2Model ----------------------------
(***************************************************************************)
(* A model of the spart Spartan client (src/src/lib.rs):                   *)
(*   Request::from_url   the URL-to-Request mapper                         *)
(*   Display for Request the request serializer                            *)
(*   get                 parse, resolve port, map, connect, write, read    *)
(*                                                                         *)
(* A string is a sequence of Unicode code points (naturals); a byte string *)
(* is a sequence of naturals below 256.  Option<T> is a sequence of length *)
(* 0 (None) or 1 (Some(x)).                                                *)
(***************************************************************************)
EXTENDS Naturals, Sequences, FiniteSets

None == << >>
Some(x) == << x >>
IsSome(o) == Len(o) = 1
Unwrap(o) == o[1]

---------------------------------------------------------------------------
(* Text helpers *)

RECURSIVE Concat(_)
\* Concatenation of a sequence of strings.
Concat(ss) == IF ss = << >> THEN << >> ELSE Head(ss) \o Concat(Tail(ss))

\* char::len_utf8 / the UTF-8 encoding of one code point (str::as_bytes).
Utf8Char(c) ==
    IF c < 128 THEN << c >>
    ELSE IF c < 2048 THEN << 192 + (c \div 64), 128 + (c % 64) >>
    ELSE IF c < 65536 THEN
        << 224 + (c \div 4096), 128 + ((c \div 64) % 64), 128 + (c % 64) >>
    ELSE << 240 + (c \div 262144), 128 + ((c \div 4096) % 64),
            128 + ((c \div 64) % 64), 128 + (c % 64) >>

RECURSIVE as_bytes(_)
\* str::as_bytes: the UTF-8 bytes of a string.
as_bytes(s) == IF s = << >> THEN << >> ELSE Utf8Char(Head(s)) \o as_bytes(Tail(s))

IsCont(b) == b >= 128 /\ b < 192

\* Number of bytes of the UTF-8 sequence a lead byte announces (0: not a lead byte).
Utf8Width(b) ==
    IF b < 128 THEN 1
    ELSE IF b >= 194 /\ b < 224 THEN 2
    ELSE IF b >= 224 /\ b < 240 THEN 3
    ELSE IF b >= 240 /\ b < 245 THEN 4
    ELSE 0

\* Whether bytes b[i..i+w-1] are one well-formed UTF-8 sequence of width w.
Utf8SeqOk(b, i, w) ==
    /\ w > 0
    /\ i + w - 1 <= Len(b)
    /\ \A k \in 1..(w - 1) : IsCont(b[i + k])
    /\ (b[i] = 224) => b[i + 1] >= 160
    /\ (b[i] = 237) => b[i + 1] < 160
    /\ (b[i] = 240) => b[i + 1] >= 144
    /\ (b[i] = 244) => b[i + 1] < 144

\* The code point of the well-formed sequence of width w at b[i].
Utf8CodePoint(b, i, w) ==
    IF w = 1 THEN b[i]
    ELSE IF w = 2 THEN (b[i] - 192) * 64 + (b[i + 1] - 128)
    ELSE IF w = 3 THEN
        (b[i] - 224) * 4096 + (b[i + 1] - 128) * 64 + (b[i + 2] - 128)
    ELSE (b[i] - 240) * 262144 + (b[i + 1] - 128) * 4096
            + (b[i + 2] - 128) * 64 + (b[i + 3] - 128)

RECURSIVE from_utf8_at(_, _)
\* String::from_utf8 from position i on: Some(code points), or None on the
\* first ill-formed sequence.
from_utf8_at(b, i) ==
    IF i > Len(b) THEN Some(<< >>)
    ELSE LET w == Utf8Width(b[i]) IN
         IF ~Utf8SeqOk(b, i, w) THEN None
         ELSE LET rest == from_utf8_at(b, i + w) IN
              IF IsSome(rest)
              THEN Some(<< Utf8CodePoint(b, i, w) >> \o Unwrap(rest))
              ELSE None

\* String::from_utf8 (also what read_to_string requires of the bytes read).
from_utf8(b) == from_utf8_at(b, 1)

\* The upper-case hexadecimal digit of n < 16, as a character.
HexDigit(n) == IF n < 10 THEN 48 + n ELSE 55 + n

\* "%XX" for one byte.
PercentByte(b) == << 37, HexDigit(b \div 16), HexDigit(b % 16) >>

RECURSIVE PercentBytes(_)
\* "%XX" for each byte.
PercentBytes(bytes) ==
    IF bytes = << >> THEN << >>
    ELSE PercentByte(Head(bytes)) \o PercentBytes(Tail(bytes))

\* urlencoding's from_hex_digit: Some(value) for 0-9, A-F, a-f.
from_hex_digit(c) ==
    IF c >= 48 /\ c <= 57 THEN Some(c - 48)
    ELSE IF c >= 65 /\ c <= 70 THEN Some(c - 55)
    ELSE IF c >= 97 /\ c <= 102 THEN Some(c - 87)
    ELSE None

RECURSIVE decode_binary(_)
\* urlencoding::decode_binary: every "%XX" with two hex digits becomes the
\* byte XX; a '%' not followed by two hex digits is kept as it is.
decode_binary(d) ==
    IF d = << >> THEN << >>
    ELSE IF Head(d) # 37 THEN << Head(d) >> \o decode_binary(Tail(d))
    ELSE IF Len(d) < 3 THEN d
    ELSE IF ~IsSome(from_hex_digit(d[2])) THEN << 37 >> \o decode_binary(Tail(d))
    ELSE IF ~IsSome(from_hex_digit(d[3]))
         THEN << 37, d[2] >> \o decode_binary(Tail(Tail(d)))
    ELSE << Unwrap(from_hex_digit(d[2])) * 16 + Unwrap(from_hex_digit(d[3])) >>
            \o decode_binary(Tail(Tail(Tail(d))))

\* urlencoding::decode: Ok(text) = Some(text), Err(FromUtf8Error) = None.
decode(s) == from_utf8(decode_binary(as_bytes(s)))

RECURSIVE Decimal(_)
\* Display for usize: the decimal digits of n, no sign, no padding.
Decimal(n) == IF n < 10 THEN << 48 + n >> ELSE Decimal(n \div 10) \o << 48 + (n % 10) >>

---------------------------------------------------------------------------
(* The url crate, as this repository builds against it.  Its source is not *)
(* part of the repository; line 52 says it is a patched version that knows *)
(* a default port for spartan, and the tests at lines 77-135 fix how it    *)
(* normalizes scheme, host and path.                                       *)

spartan == << 115, 112, 97, 114, 116, 97, 110 >>       \* "spartan"
https == << 104, 116, 116, 112, 115 >>                 \* "https"
gemini == << 103, 101, 109, 105, 110, 105 >>           \* "gemini"

\* Schemes with a default port: http, https, ws, wss, ftp, and (patched) spartan.
default_port(scheme) ==
    IF scheme = << 104, 116, 116, 112 >> THEN Some(80)
    ELSE IF scheme = https THEN Some(443)
    ELSE IF scheme = << 119, 115 >> THEN Some(80)
    ELSE IF scheme = << 119, 115, 115 >> THEN Some(443)
    ELSE IF scheme = << 102, 116, 112 >> THEN Some(21)
    ELSE IF scheme = spartan THEN Some(300)
    ELSE None

\* ASCII lower-casing of one character.
Lower(c) == IF c >= 65 /\ c <= 90 THEN c + 32 ELSE c

to_ascii_lowercase(s) == [i \in 1..Len(s) |-> Lower(s[i])]

\* The parser drops ASCII tab, LF and CR from its input before anything else.
StripTabNl(s) == SelectSeq(s, LAMBDA c : c \notin {9, 10, 13})

\* The percent-encode sets of the URL standard.
InC0Set(c) == c < 32 \/ c > 126
InFragmentSet(c) == InC0Set(c) \/ c \in {32, 34, 60, 62, 96}
InQuerySet(c) == InC0Set(c) \/ c \in {32, 34, 35, 60, 62}
InPathSet(c) == InQuerySet(c) \/ c \in {63, 96, 123, 125}
InUserinfoSet(c) == InPathSet(c) \/ c \in {47, 58, 59, 61, 64, 91, 92, 93, 94, 124}

\* Whether the percent-encode set of a component holds c.
InEncodeSet(component, c) ==
    CASE component = "fragment" -> InFragmentSet(c)
      [] component = "query" -> InQuerySet(c)
      [] component = "path" -> InPathSet(c)
      [] component = "userinfo" -> InUserinfoSet(c)

RECURSIVE PercentEncode(_, _)
\* A character of the component's set becomes "%XX" for each of its UTF-8
\* bytes; any other stays.
PercentEncode(component, s) ==
    IF s = << >> THEN << >>
    ELSE (IF InEncodeSet(component, Head(s))
          THEN PercentBytes(Utf8Char(Head(s)))
          ELSE << Head(s) >>) \o PercentEncode(component, Tail(s))

\* A component of the URL text as the parser keeps it.
Component(component, text) ==
    IF IsSome(text) THEN Some(PercentEncode(component, StripTabNl(Unwrap(text))))
    ELSE None

\* Code points a host may not contain (an IPv6 literal is bracketed instead).
IsForbiddenHost(c) ==
    c <= 32 \/ c > 126 \/ c \in {35, 37, 47, 58, 60, 62, 63, 64, 91, 92, 93, 94, 124}

IsIpv6Literal(h) == Len(h) >= 2 /\ h[1] = 91 /\ h[Len(h)] = 93

HostOk(h) ==
    /\ h # << >>
    /\ IsIpv6Literal(h) \/ \A i \in 1..Len(h) : ~IsForbiddenHost(h[i])

\* A scheme whose URLs always have an authority and a path of at least "/".
IsSpecial(scheme) == IsSome(default_port(scheme))

\* Url::parse on the text whose components are raw: None when it does not
\* parse, otherwise Some(Url).
Url_parse(raw) ==
    LET scheme == to_ascii_lowercase(Unwrap(raw.scheme))
        host == IF IsSome(raw.host)
                THEN Some(to_ascii_lowercase(StripTabNl(Unwrap(raw.host))))
                ELSE None
        path == PercentEncode("path", StripTabNl(raw.path))
    IN  IF ~IsSome(raw.scheme) THEN None
        ELSE IF IsSome(host) /\ ~HostOk(Unwrap(host)) THEN None
        ELSE IF ~IsSome(host) /\ IsSpecial(scheme) /\ scheme # spartan THEN None
        ELSE Some([scheme |-> scheme,
                   username |-> IF IsSome(host) THEN Component("userinfo", raw.userinfo)
                                ELSE None,
                   host |-> host,
                   port |-> IF raw.port = default_port(scheme) \/ ~IsSome(host)
                            THEN None ELSE raw.port,
                   path |-> IF path = << >> /\ IsSome(host) /\ IsSpecial(scheme)
                            THEN << 47 >> ELSE path,
                   query |-> Component("query", raw.query),
                   fragment |-> Component("fragment", raw.fragment)])

\* Url::port_or_known_default
port_or_known_default(url) ==
    IF IsSome(url.port) THEN url.port ELSE default_port(url.scheme)

---------------------------------------------------------------------------
(* src/src/lib.rs *)

\* A Result<T, &'static str>, or the panic of an unwrap() on the way to it.
Ok(v) == [tag |-> "Ok", val |-> Some(v), msg |-> ""]
Err(m) == [tag |-> "Err", val |-> None, msg |-> m]
Panic == [tag |-> "Panic", val |-> None, msg |-> ""]
Pending == [tag |-> "Pending", val |-> None, msg |-> ""]

\* Mutant of query_body: an empty query is taken for no query.
query_body_EmptyAsNone(query) ==
    IF ~IsSome(query) \/ query = Some(<< >>) THEN Some([data |-> None, content_length |-> 0])
    ELSE IF ~IsSome(decode(Unwrap(query))) THEN None
    ELSE LET decoded_data == Unwrap(decode(Unwrap(query)))
         IN  Some([data |-> Some(decoded_data), content_length |-> Len(decoded_data)])

\* Mutant of query_body: the length is decoded_data.len(), the byte count.
query_body_ByteLength(query) ==
    IF ~IsSome(query) THEN Some([data |-> None, content_length |-> 0])
    ELSE IF ~IsSome(decode(Unwrap(query))) THEN None
    ELSE LET decoded_data == Unwrap(decode(Unwrap(query)))
         IN  Some([data |-> Some(decoded_data),
                   content_length |-> Len(as_bytes(decoded_data))])

\* Lines 20-27, the match on parsed_url.query(): Some((data, content_length)),
\* or None when urlencoding::decode(s).unwrap() panics.
query_body(query) ==
    IF ~IsSome(query) THEN Some([data |-> None, content_length |-> 0])
    ELSE IF ~IsSome(decode(Unwrap(query))) THEN None
    ELSE LET decoded_data == Unwrap(decode(Unwrap(query)))
             decoded_len == Len(decoded_data)
         IN  Some([data |-> Some(decoded_data), content_length |-> decoded_len])

\* Line 32: Request { host, path, data, content_length }
NewRequest(host, path, body) ==
    [host |-> host, path |-> path, content_length |-> body.content_length,
     data |-> body.data]

\* Mutant of from_url: the host is looked at before the scheme.
from_url_HostFirst(parsed_url) ==
    IF ~IsSome(parsed_url.host) THEN Err("No hostname")
    ELSE IF parsed_url.scheme # spartan THEN Err("Not a spartan URL")
    ELSE IF ~IsSome(query_body(parsed_url.query)) THEN Panic
    ELSE Ok(NewRequest(Unwrap(parsed_url.host), parsed_url.path,
                       Unwrap(query_body(parsed_url.query))))

\* Mutant of from_url: the path is percent-decoded like the query.
from_url_DecodedPath(parsed_url) ==
    IF parsed_url.scheme # spartan THEN Err("Not a spartan URL")
    ELSE IF ~IsSome(parsed_url.host) THEN Err("No hostname")
    ELSE IF ~IsSome(query_body(parsed_url.query)) THEN Panic
    ELSE Ok(NewRequest(Unwrap(parsed_url.host),
                       Unwrap(decode(parsed_url.path)),
                       Unwrap(query_body(parsed_url.query))))

\* Mutant of from_url: the host carries the URL's port.
from_url_HostWithPort(parsed_url) ==
    IF parsed_url.scheme # spartan THEN Err("Not a spartan URL")
    ELSE IF ~IsSome(parsed_url.host) THEN Err("No hostname")
    ELSE IF ~IsSome(query_body(parsed_url.query)) THEN Panic
    ELSE Ok(NewRequest(IF IsSome(parsed_url.port)
                       THEN Unwrap(parsed_url.host) \o << 58 >>
                               \o Decimal(Unwrap(parsed_url.port))
                       ELSE Unwrap(parsed_url.host),
                       parsed_url.path,
                       Unwrap(query_body(parsed_url.query))))

\* Request::from_url
from_url(parsed_url) ==
    IF parsed_url.scheme # spartan THEN Err("Not a spartan URL")
    ELSE IF ~IsSome(parsed_url.host) THEN Err("No hostname")
    ELSE IF ~IsSome(query_body(parsed_url.query)) THEN Panic
    ELSE Ok(NewRequest(Unwrap(parsed_url.host), parsed_url.path,
                       Unwrap(query_body(parsed_url.query))))

\* Mutant of fmt: the body is closed with another "\r\n".
fmt_TrailingCrlf(self) ==
    Concat(<< self.host, << 32 >>, self.path, << 32 >>, Decimal(self.content_length),
              << 13, 10 >>,
              IF IsSome(self.data) THEN Unwrap(self.data) ELSE << >>,
              << 13, 10 >> >>)

\* Mutant of fmt: the request line ends with "\n" alone.
fmt_LineFeedOnly(self) ==
    Concat(<< self.host, << 32 >>, self.path, << 32 >>, Decimal(self.content_length),
              << 10 >>,
              IF IsSome(self.data) THEN Unwrap(self.data) ELSE << >> >>)

\* impl Display for Request: "{} {} {}\r\n{}"
fmt(self) ==
    Concat(<< self.host, << 32 >>, self.path, << 32 >>, Decimal(self.content_length),
              << 13, 10 >>,
              IF IsSome(self.data) THEN Unwrap(self.data) ELSE << >> >>)

---------------------------------------------------------------------------
(* Inputs *)

\* Longest query drawn, in tokens of QueryTokens.
MaxQueryTokens == 2

Schemes ==
    { None,                                        \* no scheme: a relative reference
      Some(spartan),
      Some(<< 83, 80, 65, 82, 84, 65, 78 >>),      \* "SPARTAN"
      Some(https),
      Some(gemini) }

Hosts ==
    { None,                                        \* no authority
      Some(<< 101, 88 >>),                         \* "eX"
      Some(<< 91, 58, 58, 49, 93 >>),              \* "[::1]"
      Some(<< 101, 32, 120 >>) }                   \* "e x"

Paths ==
    { << >>,                                       \* ""
      << 47 >>,                                    \* "/"
      << 47, 97, 32, 233 >>,                       \* "/a é"
      << 47, 13, 10, 37, 50, 48 >> }               \* "/\r\n%20"

QueryTokens ==
    { << 97, 61, 49, 38, 98, 61, 50 >>,            \* "a=1&b=2"
      << 104, 101, 108, 108, 111, 37, 50, 48, 119, 111, 114, 108, 100 >>,
                                                   \* "hello%20world"
      << 233 >>,                                   \* "é"
      << 37, 70, 70 >>,                            \* "%FF"
      << 37, 48, 68, 37, 48, 65 >>,                \* "%0D%0A"
      << 37, 52 >>,                                \* "%4"
      << 43 >>,                                    \* "+"
      << 37, 99, 51, 37, 97, 57 >> }               \* "%c3%a9"

RECURSIVE TokenStrings(_)
\* The concatenations of at most n query tokens.
TokenStrings(n) ==
    IF n = 0 THEN { << >> }
    ELSE LET shorter == TokenStrings(n - 1)
         IN  shorter \cup { t \o q : t \in QueryTokens, q \in shorter }

Queries == { None } \cup { Some(q) : q \in TokenStrings(MaxQueryTokens) }

Ports == { None, Some(3000) }

\* The URL texts given to Url::parse, by component.
RawUrls ==
    [scheme : Schemes, userinfo : { None }, host : Hosts, port : Ports,
     path : Paths, query : Queries, fragment : { None }]

\* What the peer sends before it closes: a response, nothing, bytes that are
\* not UTF-8.
PeerBytes ==
    { << 50, 32, 111, 107, 13, 10 >>,              \* "2 ok\r\n"
      << >>,
      << 50, 255 >> }

---------------------------------------------------------------------------
(* State *)

VARIABLES
    r,               \* the URL text, by component
    pc,              \* where the call is
    url,             \* Option<Url>: Url::parse's result
    port,            \* Option<u16>: port_or_known_default's result
    request,         \* Request::from_url's result
    request_string,  \* Option<String>: the serialized request
    ops,             \* the socket calls made so far, in order
    sent,            \* the bytes the socket took
    result,          \* what the call returned
    prev             \* Option: the mapping of the previous URL text

vars == << r, pc, url, port, request, request_string, ops, sent, result, prev >>

Init ==
    /\ r \in RawUrls
    /\ pc = "start"
    /\ url = None
    /\ port = None
    /\ request = Pending
    /\ request_string = None
    /\ ops = << >>
    /\ sent = << >>
    /\ result = Pending
    /\ prev = None

---------------------------------------------------------------------------
(* get *)

\* Line 49-50: Url::parse(&r)
Parse ==
    /\ pc = "start"
    /\ url' = Url_parse(r)
    /\ IF IsSome(url')
       THEN pc' = "parsed" /\ result' = result
       ELSE pc' = "done" /\ result' = Err("Cannot parse url")
    /\ UNCHANGED << r, port, request, request_string, ops, sent, prev >>

\* Line 52: url.port_or_known_default().unwrap()
ResolvePort ==
    /\ pc = "parsed"
    /\ port' = port_or_known_default(Unwrap(url))
    /\ IF IsSome(port')
       THEN pc' = "resolved" /\ result' = result
       ELSE pc' = "done" /\ result' = Panic
    /\ UNCHANGED << r, url, request, request_string, ops, sent, prev >>

\* Line 53: Request::from_url(url)?
MapRequest ==
    /\ pc = "resolved"
    /\ request' = from_url(Unwrap(url))
    /\ IF request'.tag = "Ok"
       THEN pc' = "mapped" /\ result' = result
       ELSE pc' = "done" /\ result' = request'
    /\ UNCHANGED << r, url, port, request_string, ops, sent, prev >>

\* Line 54: TcpStream::connect(format!("{}:{}", request.host, port)).unwrap()
Connect ==
    /\ pc = "mapped"
    /\ ops' = Append(ops, "connect")
    /\ \E connected \in BOOLEAN :
          IF connected
          THEN pc' = "connected" /\ result' = result
          ELSE pc' = "done" /\ result' = Panic
    /\ UNCHANGED << r, url, port, request, request_string, sent, prev >>

\* Line 55: request.to_string()
Serialize ==
    /\ pc = "connected"
    /\ request_string' = Some(fmt(Unwrap(request.val)))
    /\ pc' = "serialized"
    /\ UNCHANGED << r, url, port, request, ops, sent, result, prev >>

\* Mutant of Write: a failed write_all is not looked at and the call goes on
\* to read.
Write_ReadsOn ==
    /\ pc = "serialized"
    /\ ops' = Append(ops, "write")
    /\ LET bytes == as_bytes(Unwrap(request_string))
       IN  \/ sent' = bytes
           \/ \E n \in {0, Len(bytes) - 1} : sent' = SubSeq(bytes, 1, n)
    /\ pc' = "sent"
    /\ UNCHANGED << r, url, port, request, request_string, result, prev >>

\* Line 57-58: connection.write_all(request_string.as_bytes()).  A failed
\* write_all may have written any shorter prefix; the model takes the two
\* ends, nothing and all but the last byte.
Write ==
    /\ pc = "serialized"
    /\ ops' = Append(ops, "write")
    /\ LET bytes == as_bytes(Unwrap(request_string))
       IN  \/ /\ sent' = bytes
              /\ pc' = "sent"
              /\ result' = result
           \/ /\ \E n \in {0, Len(bytes) - 1} : sent' = SubSeq(bytes, 1, n)
              /\ pc' = "done"
              /\ result' = Err("Error writing to socket")
    /\ UNCHANGED << r, url, port, request, request_string, prev >>

\* Line 60-64: connection.read_to_string(&mut buffer)
Read ==
    /\ pc = "sent"
    /\ ops' = Append(ops, "read")
    /\ pc' = "done"
    /\ \/ \E bytes \in PeerBytes :
             result' = IF IsSome(from_utf8(bytes))
                       THEN Ok(Unwrap(from_utf8(bytes)))
                       ELSE Err("Unable to read response")
       \/ result' = Err("Unable to read response")
    /\ UNCHANGED << r, url, port, request, request_string, sent, prev >>

Next == Parse \/ ResolvePort \/ MapRequest \/ Connect \/ Serialize \/ Write \/ Read

Spec == Init /\ [][Next]_vars

---------------------------------------------------------------------------
(* Request::from_url and Display, driven as the tests at lines 77-147 drive *)
(* them: Url::parse, from_url, format!("{}", request); then the same again  *)
(* on a URL text that differs in port, userinfo or fragment only.           *)

MapInit == Init /\ r.port = None

\* Url::parse(..); the test stops when the text does not parse.
MapParse ==
    /\ pc = "start"
    /\ url' = Url_parse(r)
    /\ pc' = IF IsSome(url') THEN "parsed" ELSE "done"
    /\ UNCHANGED << r, port, request, request_string, ops, sent, result, prev >>

\* Request::from_url(..); the test stops unless it is Ok.
MapFromUrl ==
    /\ pc = "parsed"
    /\ request' = from_url(Unwrap(url))
    /\ pc' = IF request'.tag = "Ok" THEN "mapped" ELSE "done"
    /\ UNCHANGED << r, url, port, request_string, ops, sent, result, prev >>

\* format!("{}", request)
MapFormat ==
    /\ pc = "mapped"
    /\ request_string' = Some(fmt(Unwrap(request.val)))
    /\ pc' = "done"
    /\ UNCHANGED << r, url, port, request, ops, sent, result, prev >>

\* The texts that differ from raw at most in port, userinfo and fragment.
Variants(raw) ==
    LET p == Some(3000)
        u == Some(<< 97, 110, 111, 110 >>)         \* "anon"
        f == Some(<< 97, 98, 111, 117, 116 >>)     \* "about"
    IN  { raw,
          [raw EXCEPT !.port = p],
          [raw EXCEPT !.userinfo = u],
          [raw EXCEPT !.fragment = f],
          [raw EXCEPT !.port = p, !.userinfo = u, !.fragment = f] }

\* The next test: keep what this URL text mapped to, take a variant of it.
Remap ==
    /\ pc = "done"
    /\ prev = None
    /\ prev' = Some([r |-> r, url |-> url, request |-> request,
                      request_string |-> request_string])
    /\ r' \in Variants(r)
    /\ pc' = "start"
    /\ url' = None
    /\ request' = Pending
    /\ request_string' = None
    /\ UNCHANGED << port, ops, sent, result >>

MapNext == MapParse \/ MapFromUrl \/ MapFormat \/ Remap

MapSpec == MapInit /\ [][MapNext]_vars

---------------------------------------------------------------------------
(* Readers of the wire format, for the claims *)

\* The position of the first "\r\n" of s (0: none).
FirstCrlf(s) ==
    LET at == { i \in 1..(Len(s) - 1) : s[i] = 13 /\ s[i + 1] = 10 }
    IN  IF at = { } THEN 0 ELSE CHOOSE i \in at : \A j \in at : i <= j

RECURSIVE Split(_, _)
\* s cut at every sep: the fields, in order (one more than there are seps).
Split(s, sep) ==
    LET at == { i \in 1..Len(s) : s[i] = sep }
    IN  IF at = { } THEN << s >>
        ELSE LET i == CHOOSE k \in at : \A j \in at : k <= j
             IN  << SubSeq(s, 1, i - 1) >> \o Split(SubSeq(s, i + 1, Len(s)), sep)

IsDigits(s) == s # << >> /\ \A i \in 1..Len(s) : s[i] >= 48 /\ s[i] <= 57

RECURSIVE DecimalValue(_)
\* The number a string of decimal digits denotes.
DecimalValue(s) ==
    IF s = << >> THEN 0
    ELSE DecimalValue(SubSeq(s, 1, Len(s) - 1)) * 10 + (s[Len(s)] - 48)

\* The number of characters UTF-8 bytes encode: the bytes that continue no other.
CharCount(bytes) == Cardinality({ i \in 1..Len(bytes) : ~IsCont(bytes[i]) })

\* The Request from_url returned, when it returned Ok.
Mapped == request.tag = "Ok"
Req == Unwrap(request.val)

\* The URL Url::parse returned, when it returned one.
Url == Unwrap(url)

---------------------------------------------------------------------------
(* C1 *)

\* C1 as stated: in every Request from_url returns, content_length is 0 exactly
\* when data is None, and data is Some exactly when the URL had a non-empty
\* query component.
C1_AbsentIffZero ==
    Mapped =>
        /\ (Req.content_length = 0) <=> (Req.data = None)
        /\ IsSome(Req.data) <=> (IsSome(Url.query) /\ Unwrap(Url.query) # << >>)

\* C1 amended: data is Some exactly when the URL had a query component, empty
\* or not; content_length is 0 exactly when data is None or the empty string;
\* a non-empty query gives a non-empty body.
C1_PresentIffQuery ==
    Mapped =>
        /\ IsSome(Req.data) <=> IsSome(Url.query)
        /\ (Req.content_length = 0) <=> (Req.data = None \/ Req.data = Some(<< >>))
        /\ (IsSome(Url.query) /\ Unwrap(Url.query) # << >>) => Req.content_length > 0

\* C1 witness: from_url accepted a URL whose query is present and empty.
C1_Witness == Mapped /\ Url.query = Some(<< >>) /\ Req.content_length = 0

---------------------------------------------------------------------------
(* C2 *)

\* C2: when from_url accepts a URL with a query, content_length is the number
\* of characters, not bytes, of the percent-decoded query, and the serialized
\* request is the request line followed by exactly content_length characters.
C2_LengthInChars ==
    (Mapped /\ IsSome(Url.query)) =>
        /\ Req.content_length = CharCount(decode_binary(as_bytes(Unwrap(Url.query))))
        /\ IsSome(request_string) =>
              LET s == Unwrap(request_string)
                  eol == FirstCrlf(s)
              IN  /\ eol > 0
                  /\ Len(s) - (eol + 1) = Req.content_length
                  /\ SubSeq(s, eol + 2, Len(s)) = Unwrap(Req.data)

\* C2 witness: a serialized request whose body has fewer characters than bytes
\* and a two-digit length.
C2_Witness ==
    /\ Mapped /\ IsSome(Url.query) /\ IsSome(request_string)
    /\ Req.content_length >= 10
    /\ Req.content_length < Len(as_bytes(Unwrap(Req.data)))

---------------------------------------------------------------------------
(* C3 *)

\* C3: a serialized Request is exactly the host, a space, the path, a space,
\* the decimal content_length, "\r\n" and then the body if there is one, with
\* nothing between "\r\n" and the body and nothing after it; and every
\* Request is serialized.
C3_WireFormat ==
    /\ (pc = "done" /\ Mapped) => IsSome(request_string)
    /\ IsSome(request_string) =>
          LET s == Unwrap(request_string)
              h == Len(Req.host)
              p == Len(Req.path)
              body == IF IsSome(Req.data) THEN Unwrap(Req.data) ELSE << >>
              d == Len(s) - (h + p + 4 + Len(body))
              digits == SubSeq(s, h + p + 3, h + p + 2 + d)
          IN  /\ d >= 1
              /\ SubSeq(s, 1, h) = Req.host
              /\ s[h + 1] = 32
              /\ SubSeq(s, h + 2, h + 1 + p) = Req.path
              /\ s[h + p + 2] = 32
              /\ IsDigits(digits)
              /\ (d > 1) => (digits[1] # 48)
              /\ DecimalValue(digits) = Req.content_length
              /\ s[h + p + 3 + d] = 13
              /\ s[h + p + 4 + d] = 10
              /\ SubSeq(s, h + p + 5 + d, Len(s)) = body

\* C3 witness: a serialized Request with a body and a two-digit length.
C3_Witness ==
    /\ IsSome(request_string) /\ IsSome(Req.data)
    /\ Req.content_length >= 10
    /\ Unwrap(request_string)[Len(Unwrap(request_string))] = Unwrap(Req.data)[Req.content_length]

---------------------------------------------------------------------------
(* C4 *)

\* C4: from_url returns "Not a spartan URL" for every URL whose scheme is not
\* spartan, with or without a host; "No hostname" for every spartan URL with
\* no host; and Ok only for a spartan URL with a host.
C4_Validation ==
    (request # Pending) =>
        /\ (Url.scheme # spartan) => (request = Err("Not a spartan URL"))
        /\ (Url.scheme = spartan /\ ~IsSome(Url.host)) => (request = Err("No hostname"))
        /\ Mapped => (Url.scheme = spartan /\ IsSome(Url.host))

\* C4 witness: from_url was given a URL with neither the spartan scheme nor a
\* host, and answered for the scheme.
C4_Witness ==
    /\ request # Pending
    /\ Url.scheme # spartan /\ ~IsSome(Url.host)
    /\ request.msg = "Not a spartan URL"

---------------------------------------------------------------------------
(* C5 *)

\* C5: the Request of a valid Spartan URL with no explicit path has path "/";
\* of any other, the parser's path component unchanged.
C5_Path ==
    Mapped =>
        /\ (StripTabNl(r.path) = << >>) => (Req.path = << 47 >>)
        /\ (StripTabNl(r.path) # << >>) => (Req.path = Url.path)

\* C5 witness: a valid Spartan URL text with an empty path was mapped.
C5_Witness == Mapped /\ r.path = << >> /\ Req.path = << 47 >>

---------------------------------------------------------------------------
(* C6 *)

\* C6 as stated: when the query of a spartan URL with a host cannot be
\* percent-decoded, from_url returns an error result to its caller.
C6_DecodeError ==
    ( /\ request # Pending
      /\ Url.scheme = spartan /\ IsSome(Url.host)
      /\ IsSome(Url.query) /\ ~IsSome(decode(Unwrap(Url.query))) )
        => request.tag = "Err"

---------------------------------------------------------------------------
(* C8 *)

\* Two URL texts that differ at most in port, userinfo and fragment.
SameButPortUserFragment(a, b) ==
    /\ a.scheme = b.scheme /\ a.host = b.host
    /\ a.path = b.path /\ a.query = b.query

\* C8: two URLs that differ only in port, fragment or userinfo, and one URL
\* mapped twice, give the same Request and the same serialized request.
C8_OnlyHostPathQuery ==
    (pc = "done" /\ IsSome(prev) /\ SameButPortUserFragment(r, Unwrap(prev).r)) =>
        /\ request = Unwrap(prev).request
        /\ request_string = Unwrap(prev).request_string

\* C8 witness: a URL was serialized after one that differs from it in port,
\* userinfo and fragment.
C8_Witness ==
    /\ pc = "done" /\ IsSome(prev) /\ IsSome(request_string)
    /\ r.port # Unwrap(prev).r.port
    /\ r.userinfo # Unwrap(prev).r.userinfo
    /\ r.fragment # Unwrap(prev).r.fragment
    /\ Url # Unwrap(Unwrap(prev).url)

---------------------------------------------------------------------------
(* C9 *)

NoSpaceCrLf(s) == \A i \in 1..Len(s) : s[i] \notin {32, 13, 10}

\* C9: the serialized request, cut at its first "\r\n" and then at its
\* spaces, gives exactly three fields: the Request's host, path and
\* content_length; host and path hold no space, CR or LF.
C9_RoundTrip ==
    IsSome(request_string) =>
        LET s == Unwrap(request_string)
            eol == FirstCrlf(s)
            fields == Split(SubSeq(s, 1, eol - 1), 32)
        IN  /\ eol > 0
            /\ Len(fields) = 3
            /\ fields[1] = Req.host
            /\ fields[2] = Req.path
            /\ IsDigits(fields[3])
            /\ DecimalValue(fields[3]) = Req.content_length
            /\ NoSpaceCrLf(Req.host) /\ NoSpaceCrLf(Req.path)

\* C9 witness: a serialized request whose URL text had a space in its path
\* and whose body holds a space or "\r\n".
C9_Witness ==
    /\ IsSome(request_string)
    /\ ~NoSpaceCrLf(r.path)
    /\ IsSome(Req.data) /\ ~NoSpaceCrLf(Unwrap(Req.data))

---------------------------------------------------------------------------
(* C7 *)

\* The messages of get's errors.
ErrorMessages ==
    { "Cannot parse url", "Not a spartan URL", "No hostname",
      "Error writing to socket", "Unable to read response" }

\* C7 as stated: every call to get ends by returning Ok(response) or an error
\* that names the failed stage, never by aborting; and a URL whose scheme is
\* not spartan always gets "Not a spartan URL".
C7_TaggedResult ==
    (pc = "done") =>
        /\ result.tag \in {"Ok", "Err"}
        /\ (result.tag = "Err") => (result.msg \in ErrorMessages)
        /\ (IsSome(url) /\ Url.scheme # spartan) => (result = Err("Not a spartan URL"))

---------------------------------------------------------------------------
(* C10 *)

\* The stage of a call to get.
Stage ==
    CASE pc = "done" /\ result.tag = "Ok" -> "Received"
      [] pc = "done" /\ result.tag # "Ok" -> "Failed"
      [] pc = "sent" -> "Sent"
      [] pc \in {"connected", "serialized"} -> "Connected"
      [] OTHER -> "Unconnected"

StageOrder ==
    { << "Unconnected", "Unconnected" >>, << "Unconnected", "Connected" >>,
      << "Unconnected", "Failed" >>,
      << "Connected", "Connected" >>, << "Connected", "Sent" >>,
      << "Connected", "Failed" >>,
      << "Sent", "Received" >>, << "Sent", "Failed" >> }

StageStep == << Stage, Stage' >> \in StageOrder

C10_Calls ==
    /\ ops \in { << >>, << "connect" >>, << "connect", "write" >>,
                 << "connect", "write", "read" >> }
    /\ (Stage = "Unconnected") => (ops = << >>)
    /\ (Stage = "Connected") => (ops = << "connect" >>)
    /\ (Stage = "Sent") => (ops = << "connect", "write" >>)
    /\ (Stage = "Received") => (ops = << "connect", "write", "read" >>)
    /\ (ops # << >>) => (IsSome(url) /\ Mapped)
    /\ (Len(ops) = 3) => (sent = as_bytes(Unwrap(request_string)))
    /\ (result = Err("Error writing to socket")) => (ops = << "connect", "write" >>)
    /\ (Len(ops) = 3 /\ result.tag # "Ok") => (result = Err("Unable to read response"))

\* C10: a call to get goes Unconnected, Connected, Sent, then Received or
\* Failed, each at most once and never back: it connects only after the URL
\* parsed and from_url returned Ok, reads only after the whole request was
\* written, ends a failed write with "Error writing to socket" and no read,
\* ends a failed read with "Unable to read response", and repeats no call.
C10_StageOrder == [](C10_Calls) /\ [][StageStep]_vars

\* C10 witness: a call that ended in a failed write, part of the request
\* written and nothing read.
C10_Witness ==
    /\ pc = "done" /\ result = Err("Error writing to socket")
    /\ ops = << "connect", "write" >>
    /\ sent # << >> /\ Len(sent) < Len(as_bytes(Unwrap(request_string)))

=============================================================================
